---- MODULE Spec2Model ----
(***************************************************************************)
(* Model of the chrono scheduler: the ScheduledTaskExecutor control loop   *)
(* (src/executor.go), the ScheduledTask data model (src/task.go) and the   *)
(* cron expression engine (src/cron.go).                                   *)
(***************************************************************************)
EXTENDS Integers, Sequences, FiniteSets, Bags, TLC

(***************************************************************************)
(* Bounds of the model.                                                    *)
(***************************************************************************)
\* number of ScheduledTask objects the callers create
MaxTasks == 2
\* last instant of the wall clock
MaxTime == 2
\* largest delay a caller passes
MaxDelay == 1
\* largest period a caller passes
MaxPeriod == 2
\* the dispatch counter of a task saturates here
MaxCount == 2

(***************************************************************************)
(* Values.                                                                 *)
(***************************************************************************)
\* the nil Task and a non-nil task body
Nil == "nil"
Body == "body"
TaskArgs == {Nil, Body}
\* delays and periods a caller may pass, negative ones included
Delays == -1 .. MaxDelay
Periods == -1 .. MaxPeriod
\* a call with a nil task panics before it reads its other arguments
DelaysFor(task) == IF task = Nil THEN {0} ELSE Delays
PeriodsFor(task) == IF task = Nil THEN {0} ELSE Periods

VARIABLES
    now,             \* the wall clock, time.Now()
    heap,            \* the ScheduledTask objects, by handle (pointer)
    taskQueue,       \* executor.taskQueue: sequence of handles
    newTaskChannel,  \* per handle, the senders blocked on executor.newTaskChannel
    timerDeadline,   \* instant the armed timer fires at; 0 when stopped
    timerC,          \* the value waiting in executor.timer.C; 0 when none
    lastClock,       \* run()'s lastClock
    loopPc,          \* position of run(): "start", "top", "select", a line of the
                     \* loop ("l94now" .. "l134"), or "panicked"
    delayNow,        \* line 94: what time.Now() returned inside GetDelay(), before
                     \* the trigger instant is loaded; 0 outside
    headDelay,       \* line 94: the delay GetDelay() returned, not yet handed to Reset
    clock,           \* the timer case's clock, the fire time received; 0 outside
    rangeIndex,      \* the range loop's index, 1-based; 0 outside the loop
    ranged,          \* the backing array the range loop iterates; <<>> outside
    trigger,         \* line 115: the trigger instant read, not yet written back
    sortI,           \* sort.Sort's insertion sort: its i, 1-based; 0 outside
    sortJ,           \* sort.Sort's insertion sort: its j, 1-based; 0 outside
    running,         \* per handle, the workers executing the task body
    storing,         \* per handle, the bag of trigger instants that workers past
                     \* their time.Now() of line 167 have yet to store
    callerPanicked,  \* a scheduling call panicked on a nil task
    hist,            \* per handle, history: first trigger, dispatches, last completion,
                     \* and for the timer case at hand: due when it began, dispatches
    cronExpression,  \* the expression string handed to ParseCronExpression
    cronStart,       \* the instant handed to NextTime
    cronParsed,      \* what ParseCronExpression returned
    cronResult,      \* what NextTime returned
    cronPc           \* "idle", "start", "parsed", "rejected", "panicked" or "done"

\* the locals of run()'s timer case and of the sort run() is in
loopLocals == <<delayNow, headDelay, clock, rangeIndex, ranged, trigger, sortI, sortJ>>

execVars == <<now, heap, taskQueue, newTaskChannel, timerDeadline, timerC,
              lastClock, loopPc, running, storing, callerPanicked, hist, loopLocals>>

cronVars == <<cronExpression, cronStart, cronParsed, cronResult, cronPc>>

vars == <<execVars, cronVars>>

Max(a, b) == IF a >= b THEN a ELSE b
Min(a, b) == IF a <= b THEN a ELSE b

Handles == 1 .. Len(heap)

(***************************************************************************)
(* src/task.go                                                             *)
(***************************************************************************)
\* NewScheduledTask: id is left at its zero value, a negative period is clamped
NewScheduledTask(task, triggerTime, period, fixedRate) ==
    [id          |-> 0,
     task        |-> task,
     triggerTime |-> triggerTime,
     period      |-> IF period < 0 THEN 0 ELSE period,
     fixedRate   |-> fixedRate]

\* scheduledTask.GetDelay(): triggerTime.Sub(time.Now()), for the instant
\* timeNow that time.Now() returned; triggerTime is loaded after the call
GetDelay(scheduledTask, timeNow) == scheduledTask.triggerTime - timeNow

IsPeriodic(scheduledTask) == scheduledTask.period # 0

\* IsFixedRate answering true for every task
IsFixedRateAlways(scheduledTask) == TRUE

IsFixedRate(scheduledTask) == scheduledTask.fixedRate

\* time.Time.IsZero: the clock of the model starts after the zero instant
IsZero(t) == t = 0

\* queue.IsEmpty()
IsEmpty(queue) == Len(queue) = 0

\* queue.Less(i, j) on the objects of heap hp
Less(hp, queue, i, j) == hp[queue[i]].triggerTime < hp[queue[j]].triggerTime

\* queue.Swap(i, j)
Swap(queue, i, j) == [queue EXCEPT ![i] = queue[j], ![j] = queue[i]]

(***************************************************************************)
(* src/executor.go                                                         *)
(***************************************************************************)
\* calculateTriggerTime without the delay
calculateTriggerTimeNoDelay(delay) == now

\* executor.calculateTriggerTime(delay)
calculateTriggerTime(delay) == now + (IF delay < 0 THEN 0 ELSE delay)

\* the process is alive until a goroutine panics unrecovered
Alive == loopPc # "panicked"

\* timer.Stop() and timer.Reset() do not drain the channel: a fire time already
\* sent stays in timer.C for the next select
StoppedC == timerC

\* append(queue[:index], queue[index+1:]...) with 1-based index
RemoveAt(queue, index) ==
    SubSeq(queue, 1, index - 1) \o SubSeq(queue, index + 1, Len(queue))

\* executor.addNewTask(task) and the worker's send: block on newTaskChannel
Sending(chan, h) == [chan EXCEPT ![h] = @ + 1]

\* a scheduling call without the nil check
SubmitNoNilCheck(task, delay, period, fixedRate) ==
    /\ Len(heap) < MaxTasks
    /\ heap' = Append(heap, NewScheduledTask(task, calculateTriggerTime(delay), period, fixedRate))
    /\ hist' = Append(hist, [first |-> calculateTriggerTime(delay), dispatched |-> 0,
                             completedAt |-> 0, due |-> FALSE, fired |-> 0])
    /\ newTaskChannel' = Sending(newTaskChannel, Len(heap) + 1)
    /\ UNCHANGED <<now, taskQueue, timerDeadline, timerC, lastClock, loopPc,
                   callerPanicked, running, storing>>

\* a caller's scheduling call: nil check, NewScheduledTask, addNewTask
Submit(task, delay, period, fixedRate) ==
    IF task = Nil
    THEN /\ callerPanicked' = TRUE
         /\ UNCHANGED <<now, heap, taskQueue, newTaskChannel, timerDeadline, timerC,
                        lastClock, loopPc, running, storing, hist>>
    ELSE /\ Len(heap) < MaxTasks
         /\ LET t == calculateTriggerTime(delay)
                h == Len(heap) + 1
            IN /\ heap' = Append(heap, NewScheduledTask(task, t, period, fixedRate))
               /\ hist' = Append(hist, [first |-> t, dispatched |-> 0, completedAt |-> 0,
                                        due |-> FALSE, fired |-> 0])
               /\ newTaskChannel' = Sending(newTaskChannel, h)
               /\ running' = running
               /\ storing' = storing
         /\ UNCHANGED <<now, taskQueue, timerDeadline, timerC,
                        lastClock, loopPc, callerPanicked>>

Schedule(task, delay) ==
    /\ Alive
    /\ Submit(task, delay, 0, FALSE)
    /\ UNCHANGED loopLocals
    /\ UNCHANGED cronVars

ScheduleWithFixedDelay(task, initialDelay, delay) ==
    /\ Alive
    /\ Submit(task, initialDelay, delay, FALSE)
    /\ UNCHANGED loopLocals
    /\ UNCHANGED cronVars

ScheduleAtWithRate(task, initialDelay, period) ==
    /\ Alive
    /\ Submit(task, initialDelay, period, TRUE)
    /\ UNCHANGED loopLocals
    /\ UNCHANGED cronVars

\* the wall clock advances
Tick ==
    /\ Alive
    /\ now < MaxTime
    /\ now' = now + 1
    /\ UNCHANGED <<heap, taskQueue, newTaskChannel, timerDeadline, timerC,
                   lastClock, loopPc, running, storing, callerPanicked, hist>>
    /\ UNCHANGED loopLocals
    /\ UNCHANGED cronVars

\* the runtime fires the armed timer: a non-blocking send of the fire time
TimerExpire ==
    /\ Alive
    /\ timerDeadline # 0
    /\ now >= timerDeadline
    /\ timerC' = IF timerC = 0 THEN now ELSE timerC
    /\ timerDeadline' = 0
    /\ UNCHANGED <<now, heap, taskQueue, newTaskChannel, lastClock,
                   loopPc, running, storing, callerPanicked, hist>>
    /\ UNCHANGED loopLocals
    /\ UNCHANGED cronVars

\* the goroutine of run() starts, some time after the constructor returned:
\* lastClock := time.Now()
LoopStart ==
    /\ loopPc = "start"
    /\ lastClock' = now
    /\ loopPc' = "top"
    /\ UNCHANGED <<now, heap, taskQueue, newTaskChannel, timerDeadline, timerC,
                   running, storing, callerPanicked, hist>>
    /\ UNCHANGED loopLocals
    /\ UNCHANGED cronVars

\* run(), top of the loop: Stop on an empty queue; else the argument of Reset,
\* executor.taskQueue[0].GetDelay(), begins with its call of time.Now()
LoopArm ==
    /\ loopPc = "top"
    /\ IF IsEmpty(taskQueue)
       THEN /\ timerC' = StoppedC
            /\ timerDeadline' = 0
            /\ delayNow' = delayNow
            /\ loopPc' = "select"
       ELSE /\ delayNow' = now
            /\ loopPc' = "l94now"
            /\ UNCHANGED <<timerC, timerDeadline>>
    /\ UNCHANGED <<now, heap, taskQueue, newTaskChannel, lastClock,
                   running, storing, callerPanicked, hist>>
    /\ UNCHANGED <<headDelay, clock, rangeIndex, ranged, trigger, sortI, sortJ>>
    /\ UNCHANGED cronVars

\* GetDelay() of line 94 after its time.Now(): the head's trigger instant is
\* loaded, without the lock and whatever the workers have stored in it since,
\* and the delay is worked out
LoopGetDelay ==
    /\ loopPc = "l94now"
    /\ headDelay' = GetDelay(heap[taskQueue[1]], delayNow)
    /\ delayNow' = 0
    /\ loopPc' = "l94"
    /\ UNCHANGED <<now, heap, taskQueue, newTaskChannel, timerDeadline, timerC, lastClock,
                   running, storing, callerPanicked, hist>>
    /\ UNCHANGED <<clock, rangeIndex, ranged, trigger, sortI, sortJ>>
    /\ UNCHANGED cronVars

\* line 94, executor.timer.Reset(delay): the timer is armed for the delay from
\* the instant of the call; a delay that is not positive is due at once
LoopReset ==
    /\ loopPc = "l94"
    /\ timerC' = StoppedC
    /\ timerDeadline' = now + Max(headDelay, 0)
    /\ headDelay' = 0
    /\ loopPc' = "select"
    /\ UNCHANGED <<now, heap, taskQueue, newTaskChannel, lastClock,
                   running, storing, callerPanicked, hist>>
    /\ UNCHANGED <<delayNow, clock, rangeIndex, ranged, trigger, sortI, sortJ>>
    /\ UNCHANGED cronVars

(***************************************************************************)
(* The timer case.  A worker writes scheduledTask.triggerTime (line 167)   *)
(* without the lock, while run() reads and writes it: the timer case and   *)
(* the sorts are taken one access of triggerTime at a time, and a worker's *)
(* write falls before or after each of them.  A trigger instant is a       *)
(* time.Time of three words; both it and the instants it is compared with  *)
(* carry a monotonic reading, After and Sub look at that one word alone,   *)
(* so a read that overlaps a write sees the instant before or after it.    *)
(***************************************************************************)
InQueue(h) == \E i \in 1 .. Len(taskQueue) : taskQueue[i] = h

\* the task of handle h is due at a timer fire with fire time fireTime
Due(h, fireTime) ==
    /\ InQueue(h)
    /\ lastClock <= heap[h].triggerTime
    /\ heap[h].triggerTime <= fireTime
    /\ ~IsZero(heap[h].triggerTime)

\* the lines of the timer case run() can be at
FireLines == {"l100", "l106", "l110", "l114", "l115", "l118", "l125"}

\* run(), case clock := <-executor.timer.C: the fire time is received
LoopFire ==
    /\ loopPc = "select"
    /\ timerC # 0
    /\ clock' = timerC
    /\ timerC' = 0
    /\ loopPc' = "l100"
    /\ hist' = [h \in 1 .. Len(hist) |->
                   [hist[h] EXCEPT !.due = Due(h, timerC), !.fired = 0]]
    /\ UNCHANGED <<now, heap, taskQueue, newTaskChannel, timerDeadline, lastClock,
                   running, storing, callerPanicked, delayNow, headDelay, rangeIndex, ranged,
                   trigger, sortI, sortJ>>
    /\ UNCHANGED cronVars

\* lines 100 to 104: executor.timer.Stop(), which leaves in timer.C what the
\* timer has sent since the receive, and the range over executor.taskQueue
\* begins
FireStop ==
    /\ loopPc = "l100"
    /\ timerC' = StoppedC
    /\ timerDeadline' = 0
    /\ ranged' = taskQueue
    /\ rangeIndex' = 1
    /\ loopPc' = "l106"
    /\ UNCHANGED <<now, heap, taskQueue, newTaskChannel, lastClock, running, storing,
                   callerPanicked, hist, delayNow, headDelay, clock, trigger, sortI, sortJ>>
    /\ UNCHANGED cronVars

\* the range loop is left, by its end or by break, for the sort of line 125
LeaveRange ==
    /\ loopPc' = "l125"
    /\ rangeIndex' = 0
    /\ ranged' = <<>>
    /\ sortI' = 2
    /\ sortJ' = 2

\* the range loop takes its next element, if any, and line 106 reads its
\* trigger instant: if lastClock.After(scheduledTask.triggerTime) { continue }
FireSkip ==
    /\ loopPc = "l106"
    /\ IF rangeIndex > Len(ranged)
       THEN LeaveRange
       ELSE IF lastClock > heap[ranged[rangeIndex]].triggerTime
            THEN /\ rangeIndex' = rangeIndex + 1
                 /\ UNCHANGED <<loopPc, ranged, sortI, sortJ>>
            ELSE /\ loopPc' = "l110"
                 /\ UNCHANGED <<rangeIndex, ranged, sortI, sortJ>>
    /\ UNCHANGED <<now, heap, taskQueue, newTaskChannel, timerDeadline, timerC,
                   lastClock, running, storing, callerPanicked, hist, delayNow, headDelay, clock, trigger>>
    /\ UNCHANGED cronVars

\* line 110 reads the trigger instant again:
\* if scheduledTask.triggerTime.After(clock) || ...IsZero() { break }
FireBreak ==
    /\ loopPc = "l110"
    /\ IF \/ heap[ranged[rangeIndex]].triggerTime > clock
          \/ IsZero(heap[ranged[rangeIndex]].triggerTime)
       THEN LeaveRange
       ELSE /\ loopPc' = "l114"
            /\ UNCHANGED <<rangeIndex, ranged, sortI, sortJ>>
    /\ UNCHANGED <<now, heap, taskQueue, newTaskChannel, timerDeadline, timerC,
                   lastClock, running, storing, callerPanicked, hist, delayNow, headDelay, clock, trigger>>
    /\ UNCHANGED cronVars

\* line 114, and the right-hand side of line 115: the trigger instant is read
FireRate ==
    /\ loopPc = "l114"
    /\ IF IsFixedRate(heap[ranged[rangeIndex]])
       THEN /\ trigger' = heap[ranged[rangeIndex]].triggerTime
            /\ loopPc' = "l115"
       ELSE /\ trigger' = trigger
            /\ loopPc' = "l118"
    /\ UNCHANGED <<now, heap, taskQueue, newTaskChannel, timerDeadline, timerC,
                   lastClock, running, storing, callerPanicked, hist, delayNow, headDelay, clock, rangeIndex, ranged,
                   sortI, sortJ>>
    /\ UNCHANGED cronVars

\* the assignment of line 115: triggerTime = (the instant read).Add(period)
FireRateStore ==
    /\ loopPc = "l115"
    /\ heap' = [heap EXCEPT ![ranged[rangeIndex]].triggerTime =
                                trigger + heap[ranged[rangeIndex]].period]
    /\ trigger' = 0
    /\ loopPc' = "l118"
    /\ UNCHANGED <<now, taskQueue, newTaskChannel, timerDeadline, timerC,
                   lastClock, running, storing, callerPanicked, hist, delayNow, headDelay, clock, rangeIndex, ranged,
                   sortI, sortJ>>
    /\ UNCHANGED cronVars

\* lines 118 to 122: a task that is not both periodic and fixed-rate is taken
\* out of the queue, and the task is handed to startTask: one more worker
FireStart ==
    /\ loopPc = "l118"
    /\ IF (~IsPeriodic(heap[ranged[rangeIndex]]) \/ ~IsFixedRate(heap[ranged[rangeIndex]]))
          /\ rangeIndex > Len(taskQueue)
       \* taskQueue[index+1:] beyond the slice's length
       THEN /\ loopPc' = "panicked"
            /\ UNCHANGED <<taskQueue, ranged, rangeIndex, running, hist>>
       ELSE /\ IF ~IsPeriodic(heap[ranged[rangeIndex]]) \/ ~IsFixedRate(heap[ranged[rangeIndex]])
               \* append shifts the tail down in place
               THEN /\ ranged' = [k \in 1 .. Len(ranged) |->
                                     IF k >= rangeIndex /\ k < Len(taskQueue)
                                     THEN ranged[k + 1] ELSE ranged[k]]
                    /\ taskQueue' = SubSeq(ranged', 1, Len(taskQueue) - 1)
               ELSE UNCHANGED <<taskQueue, ranged>>
            /\ running' = [running EXCEPT ![ranged[rangeIndex]] = @ + 1]
            /\ hist' = [hist EXCEPT ![ranged[rangeIndex]].dispatched = Min(@ + 1, MaxCount),
                                    ![ranged[rangeIndex]].fired = Min(@ + 1, MaxCount)]
            /\ rangeIndex' = rangeIndex + 1
            /\ loopPc' = "l106"
    /\ UNCHANGED <<now, heap, newTaskChannel, timerDeadline, timerC, lastClock, storing,
                   callerPanicked, delayNow, headDelay, clock, trigger, sortI, sortJ>>
    /\ UNCHANGED cronVars

\* queue.SorByTriggerTime(): sort.Sort, on a slice this short an insertion sort,
\*   for i := 1; i < n; i++ { for j := i; j > 0 && Less(j, j-1); j-- { Swap(j, j-1) } }
\* SortTurn is one test of the inner loop, where Less reads two trigger
\* instants, and what follows it up to the next test. sortI and sortJ are the
\* source's i + 1 and j + 1.
SortTurn ==
    IF sortJ > 1 /\ Less(heap, taskQueue, sortJ, sortJ - 1)
    THEN /\ taskQueue' = Swap(taskQueue, sortJ, sortJ - 1)
         /\ sortJ' = sortJ - 1
         /\ sortI' = sortI
    ELSE /\ taskQueue' = taskQueue
         /\ sortI' = sortI + 1
         /\ sortJ' = sortI + 1

\* line 125, one turn of the sort; after the sort line 126, lastClock = clock,
\* and the case ends
FireSort ==
    /\ loopPc = "l125"
    /\ IF sortI <= Len(taskQueue)
       THEN /\ SortTurn
            /\ UNCHANGED <<loopPc, lastClock, clock, hist>>
       ELSE /\ lastClock' = clock
            /\ loopPc' = "top"
            /\ clock' = 0
            /\ sortI' = 0
            /\ sortJ' = 0
            /\ hist' = [h \in 1 .. Len(hist) |->
                           [hist[h] EXCEPT !.due = FALSE, !.fired = 0]]
            /\ UNCHANGED taskQueue
    /\ UNCHANGED <<now, heap, newTaskChannel, timerDeadline, timerC, running, storing,
                   callerPanicked, delayNow, headDelay, rangeIndex, ranged, trigger>>
    /\ UNCHANGED cronVars

\* run(), case newScheduledTask := <-executor.newTaskChannel: the timer is
\* stopped and the task appended; the sort of line 134 follows
LoopSubmit(h) ==
    /\ loopPc = "select"
    /\ newTaskChannel[h] > 0
    /\ newTaskChannel' = [newTaskChannel EXCEPT ![h] = @ - 1]
    /\ taskQueue' = Append(taskQueue, h)
    /\ timerC' = StoppedC
    /\ timerDeadline' = 0
    /\ loopPc' = "l134"
    /\ sortI' = 2
    /\ sortJ' = 2
    /\ UNCHANGED <<now, heap, lastClock, running, storing, callerPanicked, hist,
                   delayNow, headDelay, clock, rangeIndex, ranged, trigger>>
    /\ UNCHANGED cronVars

\* line 134, one turn of the sort; after the sort the case ends
SubmitSort ==
    /\ loopPc = "l134"
    /\ IF sortI <= Len(taskQueue)
       THEN /\ SortTurn
            /\ UNCHANGED loopPc
       ELSE /\ loopPc' = "top"
            /\ sortI' = 0
            /\ sortJ' = 0
            /\ UNCHANGED taskQueue
    /\ UNCHANGED <<now, heap, newTaskChannel, timerDeadline, timerC, lastClock,
                   running, storing, callerPanicked, hist, delayNow, headDelay, clock, rangeIndex, ranged, trigger>>
    /\ UNCHANGED cronVars

\* the index the remove case finds for task h: the first element with h's id,
\* 0 for the code's -1 (1-based otherwise)
TaskIndex(h) ==
    LET found == {i \in 1 .. Len(taskQueue) : heap[taskQueue[i]].id = heap[h].id}
    IN IF found = {} THEN 0 ELSE CHOOSE i \in found : \A j \in found : i <= j

\* run(), case task := <-executor.removeTaskChannel, for a send of handle h
LoopRemove(h) ==
    /\ loopPc = "select"
    /\ timerC' = StoppedC
    /\ timerDeadline' = 0
    /\ IF TaskIndex(h) = 0
       \* taskQueue[:-1]
       THEN /\ loopPc' = "panicked"
            /\ taskQueue' = taskQueue
       ELSE /\ loopPc' = "top"
            /\ taskQueue' = RemoveAt(taskQueue, TaskIndex(h))
    /\ UNCHANGED <<now, heap, newTaskChannel, lastClock, running, storing,
                   callerPanicked, hist>>
    /\ UNCHANGED loopLocals
    /\ UNCHANGED cronVars

\* the worker of startTask: the task body has returned and the deferred
\* function runs up to the right-hand side of line 167,
\* executor.calculateTriggerTime(scheduledTask.period), which reads time.Now()
WorkerComplete(h) ==
    /\ Alive
    /\ running[h] > 0
    /\ running' = [running EXCEPT ![h] = @ - 1]
    /\ storing' = [storing EXCEPT
                      ![h] = @ (+) SetToBag({calculateTriggerTime(heap[h].period)})]
    /\ hist' = [hist EXCEPT ![h].completedAt = now]
    /\ UNCHANGED <<now, heap, taskQueue, newTaskChannel, timerDeadline, timerC,
                   lastClock, loopPc, callerPanicked>>
    /\ UNCHANGED loopLocals
    /\ UNCHANGED cronVars

\* the assignment of line 167 by a worker that worked out the trigger instant
\* t, whatever run() and other workers have stored since; then the send unless
\* the task is fixed-rate
WorkerStore(h, t) ==
    /\ Alive
    /\ BagIn(t, storing[h])
    /\ storing' = [storing EXCEPT ![h] = @ (-) SetToBag({t})]
    /\ heap' = [heap EXCEPT ![h].triggerTime = t]
    /\ newTaskChannel' = IF ~IsFixedRate(heap[h]) THEN Sending(newTaskChannel, h)
                         ELSE newTaskChannel
    /\ UNCHANGED <<now, taskQueue, timerDeadline, timerC, lastClock, loopPc,
                   running, callerPanicked, hist>>
    /\ UNCHANGED loopLocals
    /\ UNCHANGED cronVars

(***************************************************************************)
(* src/cron.go: strings.  A string is a sequence of one-character strings. *)
(***************************************************************************)
Digits == <<"0", "1", "2", "3", "4", "5", "6", "7", "8", "9">>

LowerLetters == <<"a", "b", "c", "d", "e", "f", "g", "h", "i", "j", "k", "l", "m",
                  "n", "o", "p", "q", "r", "s", "t", "u", "v", "w", "x", "y", "z">>

UpperLetters == <<"A", "B", "C", "D", "E", "F", "G", "H", "I", "J", "K", "L", "M",
                  "N", "O", "P", "Q", "R", "S", "T", "U", "V", "W", "X", "Y", "Z">>

IsDigit(c) == \E i \in 1 .. Len(Digits) : Digits[i] = c

DigitValue(c) == (CHOOSE i \in 1 .. Len(Digits) : Digits[i] = c) - 1

RECURSIVE DecimalValue(_, _)
DecimalValue(s, acc) ==
    IF s = <<>> THEN acc ELSE DecimalValue(Tail(s), acc * 10 + DigitValue(Head(s)))

\* An int of Go (64 bits) is kept as its sign and its magnitude in three limbs
\* of nine decimal digits, top * 10^18 + mid * 10^9 + low: the integers of the
\* model checker are 32 bits wide.
Limb == 1000000000

\* the int of value k, for -Limb < k < Limb
IntOf(k) == [neg |-> k < 0, top |-> 0, mid |-> 0, low |-> IF k < 0 THEN 0 - k ELSE k]

\* math.MaxInt64 and math.MinInt64
MaxInt == [neg |-> FALSE, top |-> 9, mid |-> 223372036, low |-> 854775807]
MinInt == [neg |-> TRUE, top |-> 9, mid |-> 223372036, low |-> 854775808]

\* 2^64 in limbs
TwoTo64 == [top |-> 18, mid |-> 446744073, low |-> 709551616]

\* |x| < |y|
MagLess(x, y) ==
    \/ x.top < y.top
    \/ x.top = y.top /\ x.mid < y.mid
    \/ x.top = y.top /\ x.mid = y.mid /\ x.low < y.low

\* x is within (-Limb, Limb), and then Value(x) is its value
Fits(x) == x.top = 0 /\ x.mid = 0

Value(x) == IF x.neg THEN 0 - x.low ELSE x.low

\* x <= k and x >= k for an int x and -Limb < k < Limb
LessEq(x, k) == IF Fits(x) THEN Value(x) <= k ELSE x.neg

GreaterEq(x, k) == IF Fits(x) THEN Value(x) >= k ELSE ~x.neg

\* the limbs top, mid, low with their carries brought up
Carry(top, mid, low) ==
    [top |-> top + (mid + low \div Limb) \div Limb,
     mid |-> (mid + low \div Limb) % Limb,
     low |-> low % Limb]

\* 2^64 - sum, for a sum in limbs with 2^63 <= sum < 2^64: the magnitude of the
\* negative int that sum wraps to
WrapMagnitude(sum) ==
    Carry(TwoTo64.top - 1 - sum.top,
          TwoTo64.mid + Limb - 1 - sum.mid,
          TwoTo64.low + Limb - sum.low)

\* the int of a sum of two non-negative ints given in limbs: Go's + wraps
Wrap(sum) ==
    IF MagLess(MaxInt, sum)
    THEN [neg |-> TRUE, top |-> WrapMagnitude(sum).top, mid |-> WrapMagnitude(sum).mid,
          low |-> WrapMagnitude(sum).low]
    ELSE [neg |-> FALSE, top |-> sum.top, mid |-> sum.mid, low |-> sum.low]

\* x + y for two non-negative ints
Add(x, y) == Wrap(Carry(x.top + y.top, x.mid + y.mid, x.low + y.low))

\* a string of digits without its leading zeros (the last digit stays)
RECURSIVE TrimZeros(_)
TrimZeros(s) == IF Len(s) > 1 /\ s[1] = "0" THEN TrimZeros(Tail(s)) ELSE s

\* the limbs of a string of at most 19 digits
Limbs(d) ==
    [top |-> DecimalValue(SubSeq(d, 1, Len(d) - 18), 0),
     mid |-> DecimalValue(SubSeq(d, Max(1, Len(d) - 17), Len(d) - 9), 0),
     low |-> DecimalValue(SubSeq(d, Max(1, Len(d) - 8), Len(d)), 0)]

\* strconv.Atoi's value of a magnitude m under the limit of its sign: a range
\* error, with the limit as value, beyond it
AtoiLimit(negative, m, limit) ==
    IF MagLess(limit, m) THEN [err |-> TRUE, n |-> limit]
    ELSE [err |-> FALSE,
          n |-> [neg |-> negative /\ (m.top # 0 \/ m.mid # 0 \/ m.low # 0),
                 top |-> m.top, mid |-> m.mid, low |-> m.low]]

\* strconv.Atoi on the digits d, leading zeros taken off
AtoiRange(negative, d) ==
    IF Len(d) > 19 THEN [err |-> TRUE, n |-> IF negative THEN MinInt ELSE MaxInt]
    ELSE AtoiLimit(negative, Limbs(d), IF negative THEN MinInt ELSE MaxInt)

\* the digits s begins with
RECURSIVE DigitPrefix(_)
DigitPrefix(s) ==
    IF s = <<>> \/ ~IsDigit(Head(s)) THEN <<>> ELSE <<Head(s)>> \o DigitPrefix(Tail(s))

\* the digits d, leading zeros taken off, are 2^64 or more: strconv.ParseUint
\* has overflowed by the last of them
Overflows(d) == Len(d) > 20 \/ (Len(d) = 20 /\ ~MagLess(Limbs(d), TwoTo64))

\* the digits of a number after its sign has been taken off. strconv reads from
\* the left: a range error once the digits read overflow 64 bits, a syntax
\* error at a character that is no digit, whichever comes first; else the
\* range of int decides.
AtoiDigits(negative, body) ==
    IF body = <<>> THEN [err |-> TRUE, n |-> IntOf(0)]
    ELSE IF DigitPrefix(body) # <<>> /\ Overflows(TrimZeros(DigitPrefix(body)))
    THEN [err |-> TRUE, n |-> IF negative THEN MinInt ELSE MaxInt]
    ELSE IF DigitPrefix(body) # body THEN [err |-> TRUE, n |-> IntOf(0)]
    ELSE AtoiRange(negative, TrimZeros(body))

\* strconv.Atoi: an optional sign, then one or more decimal digits
Atoi(s) ==
    IF s = <<>> THEN [err |-> TRUE, n |-> IntOf(0)]
    ELSE IF s[1] = "+" \/ s[1] = "-" THEN AtoiDigits(s[1] = "-", Tail(s))
    ELSE AtoiDigits(FALSE, s)

\* strconv.Itoa for the ordinals 1 .. 12
Itoa(n) == IF n < 10 THEN <<Digits[n + 1]>> ELSE <<Digits[(n \div 10) + 1], Digits[(n % 10) + 1]>>

\* The characters of a string are those of ASCII and, by the name "U+...." of
\* their code point, those up to U+017F and the white space beyond.
\* unicode.ToUpper for the code points from U+0080 to U+017F that have an upper
\* case of their own: each with its upper case.
UpperCase ==
    << <<"U+00B5", "U+039C">>, <<"U+00E0", "U+00C0">>, <<"U+00E1", "U+00C1">>,
       <<"U+00E2", "U+00C2">>, <<"U+00E3", "U+00C3">>, <<"U+00E4", "U+00C4">>,
       <<"U+00E5", "U+00C5">>, <<"U+00E6", "U+00C6">>, <<"U+00E7", "U+00C7">>,
       <<"U+00E8", "U+00C8">>, <<"U+00E9", "U+00C9">>, <<"U+00EA", "U+00CA">>,
       <<"U+00EB", "U+00CB">>, <<"U+00EC", "U+00CC">>, <<"U+00ED", "U+00CD">>,
       <<"U+00EE", "U+00CE">>, <<"U+00EF", "U+00CF">>, <<"U+00F0", "U+00D0">>,
       <<"U+00F1", "U+00D1">>, <<"U+00F2", "U+00D2">>, <<"U+00F3", "U+00D3">>,
       <<"U+00F4", "U+00D4">>, <<"U+00F5", "U+00D5">>, <<"U+00F6", "U+00D6">>,
       <<"U+00F8", "U+00D8">>, <<"U+00F9", "U+00D9">>, <<"U+00FA", "U+00DA">>,
       <<"U+00FB", "U+00DB">>, <<"U+00FC", "U+00DC">>, <<"U+00FD", "U+00DD">>,
       <<"U+00FE", "U+00DE">>, <<"U+00FF", "U+0178">>, <<"U+0101", "U+0100">>,
       <<"U+0103", "U+0102">>, <<"U+0105", "U+0104">>, <<"U+0107", "U+0106">>,
       <<"U+0109", "U+0108">>, <<"U+010B", "U+010A">>, <<"U+010D", "U+010C">>,
       <<"U+010F", "U+010E">>, <<"U+0111", "U+0110">>, <<"U+0113", "U+0112">>,
       <<"U+0115", "U+0114">>, <<"U+0117", "U+0116">>, <<"U+0119", "U+0118">>,
       <<"U+011B", "U+011A">>, <<"U+011D", "U+011C">>, <<"U+011F", "U+011E">>,
       <<"U+0121", "U+0120">>, <<"U+0123", "U+0122">>, <<"U+0125", "U+0124">>,
       <<"U+0127", "U+0126">>, <<"U+0129", "U+0128">>, <<"U+012B", "U+012A">>,
       <<"U+012D", "U+012C">>, <<"U+012F", "U+012E">>, <<"U+0131", "I">>,
       <<"U+0133", "U+0132">>, <<"U+0135", "U+0134">>, <<"U+0137", "U+0136">>,
       <<"U+013A", "U+0139">>, <<"U+013C", "U+013B">>, <<"U+013E", "U+013D">>,
       <<"U+0140", "U+013F">>, <<"U+0142", "U+0141">>, <<"U+0144", "U+0143">>,
       <<"U+0146", "U+0145">>, <<"U+0148", "U+0147">>, <<"U+014B", "U+014A">>,
       <<"U+014D", "U+014C">>, <<"U+014F", "U+014E">>, <<"U+0151", "U+0150">>,
       <<"U+0153", "U+0152">>, <<"U+0155", "U+0154">>, <<"U+0157", "U+0156">>,
       <<"U+0159", "U+0158">>, <<"U+015B", "U+015A">>, <<"U+015D", "U+015C">>,
       <<"U+015F", "U+015E">>, <<"U+0161", "U+0160">>, <<"U+0163", "U+0162">>,
       <<"U+0165", "U+0164">>, <<"U+0167", "U+0166">>, <<"U+0169", "U+0168">>,
       <<"U+016B", "U+016A">>, <<"U+016D", "U+016C">>, <<"U+016F", "U+016E">>,
       <<"U+0171", "U+0170">>, <<"U+0173", "U+0172">>, <<"U+0175", "U+0174">>,
       <<"U+0177", "U+0176">>, <<"U+017A", "U+0179">>, <<"U+017C", "U+017B">>,
       <<"U+017E", "U+017D">>, <<"U+017F", "S">> >>

\* strings.ToUpper on one character
UpperChar(c) ==
    IF \E i \in 1 .. Len(LowerLetters) : LowerLetters[i] = c
    THEN UpperLetters[CHOOSE i \in 1 .. Len(LowerLetters) : LowerLetters[i] = c]
    ELSE IF \E i \in 1 .. Len(UpperCase) : UpperCase[i][1] = c
    THEN UpperCase[CHOOSE i \in 1 .. Len(UpperCase) : UpperCase[i][1] = c][2]
    ELSE c

ToUpper(s) == [i \in 1 .. Len(s) |-> UpperChar(s[i])]

\* strings.Index(s, c) for a one-character c: 0-based position, or -1
Index(s, c) ==
    IF \E i \in 1 .. Len(s) : s[i] = c
    THEN (CHOOSE i \in 1 .. Len(s) : s[i] = c /\ \A j \in 1 .. (i - 1) : s[j] # c) - 1
    ELSE -1

\* s[lo:hi] and s[lo:] of Go, 0-based
Slice(s, lo, hi) == SubSeq(s, lo + 1, hi)
SliceFrom(s, lo) == SubSeq(s, lo + 1, Len(s))

HasPrefix(s, old) == Len(s) >= Len(old) /\ SubSeq(s, 1, Len(old)) = old

\* strings.ReplaceAll(s, old, new), old not empty
RECURSIVE ReplaceAll(_, _, _)
ReplaceAll(s, old, new) ==
    IF s = <<>> THEN <<>>
    ELSE IF HasPrefix(s, old)
         THEN new \o ReplaceAll(SubSeq(s, Len(old) + 1, Len(s)), old, new)
         ELSE <<Head(s)>> \o ReplaceAll(Tail(s), old, new)

\* strings.Split(s, c) for a one-character separator c
RECURSIVE Split(_, _)
Split(s, c) ==
    IF Index(s, c) = -1 THEN <<s>>
    ELSE <<Slice(s, 0, Index(s, c))>> \o Split(SliceFrom(s, Index(s, c) + 1), c)

\* the white space of strings.Fields, unicode.IsSpace: the six of ASCII, then
\* the code points with the White_Space property. "\\v" stands for the vertical
\* tab and a name "U+..." for its code point, which a string of this language
\* cannot hold.
IsSpace(c) ==
    c \in {" ", "\t", "\n", "\r", "\f", "\\v", "U+0085", "U+00A0", "U+1680",
           "U+2000", "U+2001", "U+2002", "U+2003", "U+2004", "U+2005", "U+2006",
           "U+2007", "U+2008", "U+2009", "U+200A", "U+2028", "U+2029", "U+202F",
           "U+205F", "U+3000"}

\* strings.Fields(s): the maximal runs of non-space characters
RECURSIVE FieldsFrom(_, _, _)
FieldsFrom(s, cur, acc) ==
    IF s = <<>> THEN (IF cur = <<>> THEN acc ELSE Append(acc, cur))
    ELSE IF IsSpace(Head(s))
         THEN FieldsFrom(Tail(s), <<>>, IF cur = <<>> THEN acc ELSE Append(acc, cur))
         ELSE FieldsFrom(Tail(s), Append(cur, Head(s)), acc)

Fields(s) == FieldsFrom(s, <<>>, <<>>)

(***************************************************************************)
(* src/cron.go: field types and parsing.  The Bits of a field are the set  *)
(* of the positions of the set bits of the uint64.                         *)
(***************************************************************************)
months == << <<"J", "A", "N">>, <<"F", "E", "B">>, <<"M", "A", "R">>, <<"A", "P", "R">>,
             <<"M", "A", "Y">>, <<"J", "U", "N">>, <<"J", "U", "L">>, <<"A", "U", "G">>,
             <<"S", "E", "P">>, <<"O", "C", "T">>, <<"N", "O", "V">>, <<"D", "E", "C">> >>

days == << <<"M", "O", "N">>, <<"T", "U", "E">>, <<"W", "E", "D">>, <<"T", "H", "U">>,
           <<"F", "R", "I">>, <<"S", "A", "T">>, <<"S", "U", "N">> >>

cronFieldSecond == "SECOND"
cronFieldMinute == "MINUTE"
cronFieldHour == "HOUR"
cronFieldDayOfMonth == "DAY_OF_MONTH"
cronFieldMonth == "MONTH"
cronFieldDayOfWeek == "DAY_OF_WEEK"

second == [Field |-> cronFieldSecond, MinValue |-> 0, MaxValue |-> 59]
minute == [Field |-> cronFieldMinute, MinValue |-> 0, MaxValue |-> 59]
hour == [Field |-> cronFieldHour, MinValue |-> 0, MaxValue |-> 23]
dayOfMonth == [Field |-> cronFieldDayOfMonth, MinValue |-> 1, MaxValue |-> 31]
month == [Field |-> cronFieldMonth, MinValue |-> 1, MaxValue |-> 12]
dayOfWeek == [Field |-> cronFieldDayOfWeek, MinValue |-> 0, MaxValue |-> 6]

cronFieldTypes == <<second, minute, hour, dayOfMonth, month, dayOfWeek>>

newValueRange(min, max) == [MinValue |-> min, MaxValue |-> max]

maxAttempts == 366

\* the bit positions of a uint64, and of mask = 0xFFFFFFFFFFFFFFFF
mask == 0 .. 63

\* x << n on a uint64 whose set bits are x
ShiftLeft(x, n) == {b + n : b \in x} \cap mask

\* replaceOrdinals(value, list): upper-case, then each name by its 1-based ordinal
RECURSIVE ReplaceFrom(_, _, _)
ReplaceFrom(value, list, index) ==
    IF index >= Len(list) THEN value
    ELSE ReplaceFrom(ReplaceAll(value, list[index + 1], Itoa(index + 1)), list, index + 1)

replaceOrdinals(value, list) == ReplaceFrom(ToUpper(value), list, 0)

\* checkValidValue after its strconv.Atoi(value), which returned r; a value it
\* returns is within the field's range and kept as a plain integer
checkAtoiResult(r, fieldType) ==
    IF r.err THEN [err |-> TRUE, n |-> 0]
    ELSE IF fieldType.Field = cronFieldDayOfWeek /\ r.n = IntOf(0)
         THEN [err |-> FALSE, n |-> Value(r.n)]
    ELSE IF GreaterEq(r.n, fieldType.MinValue) /\ LessEq(r.n, fieldType.MaxValue)
         THEN [err |-> FALSE, n |-> Value(r.n)]
         ELSE [err |-> TRUE, n |-> 0]

\* checkValidValue(value, fieldType)
checkValidValue(value, fieldType) == checkAtoiResult(Atoi(value), fieldType)

\* parseRange, no hyphen: result is what checkValidValue(value) returned
rangeOfValue(result) ==
    IF result.err THEN [err |-> TRUE, range |-> newValueRange(0, 0)]
    ELSE [err |-> FALSE, range |-> newValueRange(result.n, result.n)]

\* parseRange, with a hyphen: min and max are what checkValidValue returned
\* for minStr and maxStr
rangeOfBounds(min, max, fieldType) ==
    IF min.err \/ max.err THEN [err |-> TRUE, range |-> newValueRange(0, 0)]
    ELSE [err |-> FALSE,
          range |-> newValueRange(
              IF fieldType.Field = cronFieldDayOfWeek /\ min.n = 7 THEN 0 ELSE min.n,
              max.n)]

\* parseRange with hyphenPos = strings.Index(value, "-")
parseRangeAt(value, fieldType, hyphenPos) ==
    IF hyphenPos = -1 THEN rangeOfValue(checkValidValue(value, fieldType))
    ELSE rangeOfBounds(checkValidValue(Slice(value, 0, hyphenPos), fieldType),
                       checkValidValue(SliceFrom(value, hyphenPos + 1), fieldType),
                       fieldType)

\* parseRange(value, fieldType)
parseRange(value, fieldType) ==
    IF value = <<"*">>
    THEN [err |-> FALSE, range |-> newValueRange(fieldType.MinValue, fieldType.MaxValue)]
    ELSE parseRangeAt(value, fieldType, Index(value, "-"))

\* for index := MinValue; index <= MaxValue; index += step { Bits |= 1 << index }
\* from the int index on, step an int above 1. An index that has wrapped below
\* zero is below MaxValue too, and 1 << index panics on it.
RECURSIVE StepBits(_, _, _, _)
StepBits(bits, index, max, step) ==
    IF ~LessEq(index, max) THEN [status |-> "ok", bits |-> bits]
    ELSE IF index.neg THEN [status |-> "panic", bits |-> bits]
    ELSE StepBits(bits \cup ShiftLeft({0}, Value(index)), Add(index, step), max, step)

\* the end of one pass of parseField's loop: the bits of the term with range
\* valueRange and step step (an int), put into the bits so far
setBits(bits, valueRange, step) ==
    IF ~LessEq(step, 1)
    THEN StepBits(bits, IntOf(valueRange.MinValue), valueRange.MaxValue, step)
    ELSE IF valueRange.MinValue = valueRange.MaxValue
         THEN [status |-> "ok", bits |-> bits \cup ShiftLeft({0}, valueRange.MinValue)]
         \* Bits = ^(MaxUint64 << (MaxValue + 1)) & (MaxUint64 << MinValue)
         ELSE [status |-> "ok",
               bits |-> (mask \ ShiftLeft(mask, valueRange.MaxValue + 1))
                           \cap ShiftLeft(mask, valueRange.MinValue)]

\* a term with a slash: parsed is parseRange(rangeStr), hyphenPos the position
\* of "-" in rangeStr, step what strconv.Atoi(stepStr) returned.
\* status is "ok", "error" (an error is returned) or "panic"
steppedTerm(bits, fieldType, parsed, hyphenPos, step) ==
    IF parsed.err THEN [status |-> "error", bits |-> bits]
    ELSE IF step.err \/ LessEq(step.n, 0) THEN [status |-> "panic", bits |-> bits]
    ELSE setBits(bits,
                 IF hyphenPos = -1
                 THEN newValueRange(parsed.range.MinValue, fieldType.MaxValue)
                 ELSE parsed.range,
                 step.n)

\* a term without a slash: parsed is parseRange(field), step stays -1
plainTerm(bits, parsed) ==
    IF parsed.err THEN [status |-> "error", bits |-> bits]
    ELSE setBits(bits, parsed.range, IntOf(-1))

\* one pass of parseField's loop with slashPos = strings.Index(field, "/")
parseTermAt(bits, field, fieldType, slashPos) ==
    IF slashPos # -1
    THEN steppedTerm(bits, fieldType,
                     parseRange(Slice(field, 0, slashPos), fieldType),
                     Index(Slice(field, 0, slashPos), "-"),
                     Atoi(SliceFrom(field, slashPos + 1)))
    ELSE plainTerm(bits, parseRange(field, fieldType))

\* one pass of parseField's loop, for the comma-separated term field
parseTerm(bits, field, fieldType) == parseTermAt(bits, field, fieldType, Index(field, "/"))

\* parseField's loop over the terms, from the i-th on; r is the outcome so far
RECURSIVE parseTerms(_, _, _, _)
parseTerms(r, fields, i, fieldType) ==
    IF i > Len(fields) \/ r.status # "ok" THEN r
    ELSE parseTerms(parseTerm(r.bits, fields[i], fieldType), fields, i + 1, fieldType)

\* the cronFieldBits of parseField with the outcome r of its loop
fieldBits(r, fieldType) == [status |-> r.status, Typ |-> fieldType, Bits |-> r.bits]

\* parseField(value, fieldType): status and, when ok, the cronFieldBits
parseField(value, fieldType) ==
    IF Len(value) = 0 THEN [status |-> "error", Typ |-> fieldType, Bits |-> {}]
    ELSE fieldBits(
             parseTerms([status |-> "ok", bits |-> {}],
                        Split(IF fieldType.Field = cronFieldMonth
                              THEN replaceOrdinals(value, months)
                              ELSE IF fieldType.Field = cronFieldDayOfWeek
                                   THEN replaceOrdinals(value, days)
                                   ELSE value,
                              ","),
                        1, fieldType),
             fieldType)

\* ParseCronExpression's loop over cronFieldTypes, from index on; value is what
\* parseField returned for the field before
RECURSIVE parseFields(_, _, _, _)
parseFields(fields, index, value, acc) ==
    IF value.status # "ok" THEN [status |-> value.status, fields |-> <<>>]
    ELSE IF index > Len(cronFieldTypes)
         THEN [status |-> "ok", fields |-> Append(acc, [Typ |-> value.Typ, Bits |-> value.Bits])]
         ELSE parseFields(fields, index + 1,
                          parseField(fields[index], cronFieldTypes[index]),
                          Append(acc, [Typ |-> value.Typ, Bits |-> value.Bits]))

\* ParseCronExpression after fields := strings.Fields(expression)
parseSplit(fields) ==
    IF Len(fields) # 6 THEN [status |-> "error", fields |-> <<>>]
    ELSE parseFields(fields, 2, parseField(fields[1], cronFieldTypes[1]), <<>>)

\* ParseCronExpression(expression)
ParseCronExpression(expression) ==
    IF Len(expression) = 0 THEN [status |-> "error", fields |-> <<>>]
    ELSE parseSplit(Fields(expression))


(***************************************************************************)
(* src/cron.go: instants.  A time.Time in UTC is [day, sec, nsec]: the day *)
(* number counted from 0001-01-01, the second of the day and the           *)
(* nanosecond; the zero Time is day 0, second 0, nanosecond 0.             *)
(***************************************************************************)
ZeroTime == [day |-> 0, sec |-> 0, nsec |-> 0]

\* t.IsZero()
IsZeroTime(t) == t = ZeroTime

\* t.Equal(u), t.After(u)
Equal(t, u) == t = u

After(t, u) ==
    \/ t.day > u.day
    \/ t.day = u.day /\ t.sec > u.sec
    \/ t.day = u.day /\ t.sec = u.sec /\ t.nsec > u.nsec

IsLeap(year) == year % 4 = 0 /\ (year % 100 # 0 \/ year % 400 = 0)

\* days before the month (1 .. 13) in the year
DaysBeforeMonth(year, m) ==
    <<0, 31, 59, 90, 120, 151, 181, 212, 243, 273, 304, 334, 365>>[m]
        + (IF IsLeap(year) /\ m >= 3 THEN 1 ELSE 0)

\* days from 0001-01-01 to January 1 of the year
DaysBeforeYear(year) ==
    365 * (year - 1) + ((year - 1) \div 4) - ((year - 1) \div 100) + ((year - 1) \div 400)

\* time.Date(year, month, day, ...) in UTC: month and day are normalised
Date(year, mon, dom, hh, mm, ss, nsec) ==
    LET y == year + ((mon - 1) \div 12)
        m == ((mon - 1) % 12) + 1
    IN [day |-> DaysBeforeYear(y) + DaysBeforeMonth(y, m) + dom - 1,
        sec |-> hh * 3600 + mm * 60 + ss,
        nsec |-> nsec]

\* the year of a day number and the day within that year (from 0), by the
\* 400-, 100-, 4- and 1-year cycles
YearDay(d) ==
    LET n400 == d \div 146097
        r1 == d % 146097
        c100 == r1 \div 36524
        n100 == c100 - (c100 \div 4)
        r2 == r1 - 36524 * n100
        n4 == r2 \div 1461
        r3 == r2 % 1461
        c1 == r3 \div 365
        n1 == c1 - (c1 \div 4)
    IN [year |-> 400 * n400 + 100 * n100 + 4 * n4 + n1 + 1, yday |-> r3 - 365 * n1]

\* t.Year(), t.Month(), t.Day(), t.Weekday(), t.Hour(), t.Minute(), t.Second()
Year(t) == YearDay(t.day).year

Month(t) ==
    CHOOSE m \in 1 .. 12 :
        /\ DaysBeforeMonth(Year(t), m) <= YearDay(t.day).yday
        /\ YearDay(t.day).yday < DaysBeforeMonth(Year(t), m + 1)

Day(t) == YearDay(t.day).yday - DaysBeforeMonth(Year(t), Month(t)) + 1

\* 0001-01-01 is a Monday; Sunday is 0
Weekday(t) == (t.day + 1) % 7

Hour(t) == t.sec \div 3600

Minute(t) == (t.sec % 3600) \div 60

Second(t) == t.sec % 60

\* t.Add of n whole seconds
AddSeconds(t, n) ==
    [day |-> t.day + ((t.sec + n) \div 86400), sec |-> (t.sec + n) % 86400, nsec |-> t.nsec]

\* t.Add of d nanoseconds, 0 <= d <= one second
AddNanos(t, d) ==
    AddSeconds([t EXCEPT !.nsec = (t.nsec + d) % 1000000000],
               (t.nsec + d) \div 1000000000)

\* t.AddDate(0, mons, dys)
AddDate(t, mons, dys) ==
    LET d == Date(Year(t), Month(t) + mons, Day(t) + dys, 0, 0, 0, t.nsec)
    IN [d EXCEPT !.sec = t.sec]

\* getTimeValue(t, field)
getTimeValue(t, field) ==
    CASE field = cronFieldSecond -> Second(t)
      [] field = cronFieldMinute -> Minute(t)
      [] field = cronFieldHour -> Hour(t)
      [] field = cronFieldDayOfMonth -> Day(t)
      [] field = cronFieldMonth -> Month(t)
      [] field = cronFieldDayOfWeek -> Weekday(t)

\* addTime(t, field, value)
addTime(t, field, value) ==
    CASE field = cronFieldSecond -> AddSeconds(t, value)
      [] field = cronFieldMinute -> AddSeconds(t, value * 60)
      [] field = cronFieldHour -> AddSeconds(t, value * 3600)
      [] field = cronFieldDayOfMonth -> AddDate(t, 0, value)
      [] field = cronFieldMonth -> AddDate(t, value, 0)
      [] field = cronFieldDayOfWeek -> AddDate(t, 0, value)

\* setNextBit(bitsValue, index): the lowest set bit at or above index, or -1
setNextBit(bitsValue, index) ==
    LET result == bitsValue \cap ShiftLeft(mask, index)
    IN IF result # {} THEN CHOOSE b \in result : \A c \in result : b <= c
       ELSE -1

\* for ; current != next && count < maxAttempts; count++ { }
\* The body changes neither current nor next: while they differ count runs up
\* to maxAttempts, and the loop ends there.
Spin(current, nextBit, count) ==
    IF current # nextBit /\ count < maxAttempts THEN maxAttempts ELSE count

\* expression.next(t), from the field at 1-based index on
RECURSIVE nextFrom(_, _, _)
nextFrom(fields, index, t) ==
    IF index > Len(fields) THEN ZeroTime
    ELSE LET field == fields[index]
             current == getTimeValue(t, field.Typ.Field)
             found == setNextBit(field.Bits, current)
             temp == IF found = -1
                     THEN addTime(t, field.Typ.Field, field.Typ.MaxValue - current + 1)
                     ELSE t
             nextBit == IF found = -1 THEN setNextBit(field.Bits, 0) ELSE found
         IN IF nextBit = current THEN t
            ELSE IF Spin(getTimeValue(temp, field.Typ.Field), nextBit, 0) >= maxAttempts
                 THEN ZeroTime
                 ELSE nextFrom(fields, index + 1, t)

\* expression.next(t)
next(expression, t) == nextFrom(expression, 1, t)

\* t.Add(1*time.Second - time.Duration(t.Nanosecond())*time.Nanosecond) without
\* the added second
TruncateOnly(t) == [t EXCEPT !.nsec = 0]

\* t.Add(1*time.Second - time.Duration(t.Nanosecond())*time.Nanosecond)
NextSecond(t) == AddNanos(t, 1000000000 - t.nsec)

\* the loop of NextTime from attempt i on
RECURSIVE NextTimeFrom(_, _, _)
NextTimeFrom(expression, t, i) ==
    IF i >= maxAttempts THEN ZeroTime
    ELSE LET result == next(expression, t)
         IN IF IsZeroTime(result) \/ Equal(result, t) THEN result
            ELSE NextTimeFrom(expression, result, i + 1)

\* expression.NextTime(t)
NextTime(expression, t) == NextTimeFrom(expression, NextSecond(t), 0)


(***************************************************************************)
(* The executor after construction and its steps.                          *)
(***************************************************************************)
\* NewScheduledTaskExecutor: a stopped timer, an empty queue, run() started
ExecInit ==
    /\ now = 1
    /\ heap = <<>>
    /\ taskQueue = <<>>
    /\ newTaskChannel = [h \in 1 .. MaxTasks |-> 0]
    /\ timerDeadline = 0
    /\ timerC = 0
    /\ lastClock = 0
    /\ loopPc = "start"
    /\ running = [h \in 1 .. MaxTasks |-> 0]
    /\ storing = [h \in 1 .. MaxTasks |-> EmptyBag]
    /\ delayNow = 0
    /\ headDelay = 0
    /\ callerPanicked = FALSE
    /\ hist = <<>>
    /\ clock = 0
    /\ rangeIndex = 0
    /\ ranged = <<>>
    /\ trigger = 0
    /\ sortI = 0
    /\ sortJ = 0

\* no cron expression in use
CronIdle ==
    /\ cronExpression = <<>>
    /\ cronStart = ZeroTime
    /\ cronParsed = [status |-> "none", fields |-> <<>>]
    /\ cronResult = ZeroTime
    /\ cronPc = "idle"

Init == ExecInit /\ CronIdle

Next ==
    \/ Tick
    \/ TimerExpire
    \/ \E task \in TaskArgs : \E delay \in DelaysFor(task) : Schedule(task, delay)
    \/ \E task \in TaskArgs : \E initialDelay \in DelaysFor(task), delay \in PeriodsFor(task) :
          ScheduleWithFixedDelay(task, initialDelay, delay)
    \/ \E task \in TaskArgs : \E initialDelay \in DelaysFor(task), period \in PeriodsFor(task) :
          ScheduleAtWithRate(task, initialDelay, period)
    \/ LoopStart
    \/ LoopArm
    \/ LoopGetDelay
    \/ LoopReset
    \/ LoopFire
    \/ FireStop
    \/ FireSkip
    \/ FireBreak
    \/ FireRate
    \/ FireRateStore
    \/ FireStart
    \/ FireSort
    \/ \E h \in Handles : LoopSubmit(h)
    \/ SubmitSort
    \/ \E h \in Handles : LoopRemove(h)
    \/ \E h \in Handles : WorkerComplete(h)
    \/ \E h \in Handles : \E t \in BagToSet(storing[h]) : WorkerStore(h, t)

Spec == Init /\ [][Next]_vars

\* The clock advances and the runtime delivers a due timer; the control loop
\* runs, and its select takes a ready case again and again (Go chooses among
\* the ready cases at random). Nothing is assumed of the callers and of the
\* task bodies.
Fairness ==
    /\ WF_vars(Tick)
    /\ SF_vars(TimerExpire)
    /\ WF_vars(LoopStart)
    /\ WF_vars(LoopArm)
    /\ WF_vars(LoopGetDelay)
    /\ WF_vars(LoopReset)
    /\ SF_vars(LoopFire)
    /\ WF_vars(FireStop)
    /\ WF_vars(FireSkip)
    /\ WF_vars(FireBreak)
    /\ WF_vars(FireRate)
    /\ WF_vars(FireRateStore)
    /\ WF_vars(FireStart)
    /\ WF_vars(FireSort)
    /\ \A h \in 1 .. MaxTasks : SF_vars(LoopSubmit(h))
    /\ WF_vars(SubmitSort)

\* the callers of the liveness specification pass a task body, no initial
\* delay and a period of 0 or 1
FairDelays == {0}
FairPeriods == {0, 1}

FairNext ==
    \/ Tick
    \/ TimerExpire
    \/ \E delay \in FairDelays : Schedule(Body, delay)
    \/ \E initialDelay \in FairDelays, delay \in FairPeriods :
          ScheduleWithFixedDelay(Body, initialDelay, delay)
    \/ \E initialDelay \in FairDelays, period \in FairPeriods :
          ScheduleAtWithRate(Body, initialDelay, period)
    \/ LoopStart
    \/ LoopArm
    \/ LoopGetDelay
    \/ LoopReset
    \/ LoopFire
    \/ FireStop
    \/ FireSkip
    \/ FireBreak
    \/ FireRate
    \/ FireRateStore
    \/ FireStart
    \/ FireSort
    \/ \E h \in Handles : LoopSubmit(h)
    \/ SubmitSort
    \/ \E h \in Handles : LoopRemove(h)
    \/ \E h \in Handles : WorkerComplete(h)
    \/ \E h \in Handles : \E t \in BagToSet(storing[h]) : WorkerStore(h, t)

FairSpec == Init /\ [][FairNext]_vars /\ Fairness

(***************************************************************************)
(* A caller of the cron engine: parse an expression, then ask for the next *)
(* instant after a start instant.                                          *)
(***************************************************************************)
RECURSIVE JoinWords(_)
JoinWords(ws) ==
    IF Len(ws) = 0 THEN <<>>
    ELSE IF Len(ws) = 1 THEN ws[1]
    ELSE ws[1] \o <<" ">> \o JoinWords(Tail(ws))

Star == <<"*">>
Zero == <<"0">>

\* "0 0 12 * * MON"
MondayNoonExpression == JoinWords(<<Zero, Zero, <<"1", "2">>, Star, Star, <<"M", "O", "N">> >>)

\* "0 0/15 * * * *"
QuarterHourExpression == JoinWords(<<Zero, <<"0", "/", "1", "5">>, Star, Star, Star, Star>>)

\* "0 0 0 31 FEB *"
FebruaryThirtyFirstExpression ==
    JoinWords(<<Zero, Zero, Zero, <<"3", "1">>, <<"F", "E", "B">>, Star>>)

\* "0 0 0 * * 7" and "0 0 0 * * SUN"
SundayExpressions ==
    { JoinWords(<<Zero, Zero, Zero, Star, Star, <<"7">> >>),
      JoinWords(<<Zero, Zero, Zero, Star, Star, <<"S", "U", "N">> >>) }

\* the digits of 99999999999999999999, beyond every int, and of math.MaxInt64
TwentyNines == [i \in 1 .. 20 |-> "9"]
MaxIntDigits ==
    <<"9", "2", "2", "3", "3", "7", "2", "0", "3", "6",
      "8", "5", "4", "7", "7", "5", "8", "0", "7">>

\* "0 0 0 1/9223372036854775807 * *"
WrappingStepExpression ==
    JoinWords(<<Zero, Zero, Zero, <<"1", "/">> \o MaxIntDigits, Star, Star>>)

Expressions ==
    { MondayNoonExpression,
      \* "0 0 0 * * <long s>at"
      JoinWords(<<Zero, Zero, Zero, Star, Star, <<"U+017F", "a", "t">> >>),
      MondayNoonExpression \o <<"\n">>,
      WrappingStepExpression,
      JoinWords(<<<<"*", "/">> \o TwentyNines, Star, Star, Star, Star, Star>>),
      JoinWords(<<Zero, <<"0", "/">> \o MaxIntDigits, Star, Star, Star, Star>>),
      QuarterHourExpression,
      FebruaryThirtyFirstExpression,
      JoinWords(<<Star, Star, Star, Star, Star, Star>>),
      JoinWords(<<<<"0", "/", "1", "5">>, Star, Star, Star, Star, Star>>),
      JoinWords(<<Zero, <<"5", "8", "/", "1">>, Star, Star, Star, Star>>),
      JoinWords(<<<<"*", "/", "-", "1">>, Star, Star, Star, Star, Star>>),
      JoinWords(<<<<"3", "0">>, <<"5", "9">>, <<"2", "3">>, <<"3", "1">>, <<"1", "2">>, Star>>),
      JoinWords(<<Zero, Zero, Zero, <<"1">>, <<"1">>, Zero>>),
      JoinWords(<<Zero, Zero, Zero, Star, <<"j", "a", "n", "-", "M", "a", "r">>, <<"1", "-", "5">> >>),
      JoinWords(<<<<"1", ",", "5", "-", "1", "0">>, Star, Star, Star, Star, Star>>),
      JoinWords(<<<<"1", "0", "-", "5">>, Star, Star, Star, Star, Star>>),
      JoinWords(<<<<"1", "0", "-", "2", "0", "/", "5">>, <<"5">>, Star, Star, Star, Star>>),
      JoinWords(<<<<"*", "/", "0">>, Star, Star, Star, Star, Star>>),
      JoinWords(<<<<"*", "/", "x">>, Star, Star, Star, Star, Star>>),
      JoinWords(<<<<"6", "0">>, Star, Star, Star, Star, Star>>),
      JoinWords(<<Star, Star, Star, Star>>),
      <<>> } \cup SundayExpressions

\* start instants: ends and middles of minutes, hours, days, months and years,
\* on and off the whole second
Instants ==
    { Date(y, m, d, hh, mm, ss, ns) :
        y \in {2023, 2024}, m \in {1, 2, 12}, d \in {1, 2, 7, 28, 31},
        hh \in {0, 11, 12, 23}, mm \in {0, 59}, ss \in {0, 30, 59},
        ns \in {0, 1, 999999999} }

CronInit ==
    /\ ExecInit
    /\ cronExpression \in Expressions
    /\ cronStart \in Instants
    /\ cronParsed = [status |-> "none", fields |-> <<>>]
    /\ cronResult = ZeroTime
    /\ cronPc = "start"

\* the call ParseCronExpression(cronExpression)
CronParse ==
    /\ cronPc = "start"
    /\ cronParsed' = ParseCronExpression(cronExpression)
    /\ cronPc' = CASE cronParsed'.status = "ok" -> "parsed"
                   [] cronParsed'.status = "error" -> "rejected"
                   [] cronParsed'.status = "panic" -> "panicked"
    /\ UNCHANGED <<cronExpression, cronStart, cronResult>>
    /\ UNCHANGED execVars

\* the call expression.NextTime(cronStart) on the parsed expression
CronNextTime ==
    /\ cronPc = "parsed"
    /\ cronResult' = NextTime(cronParsed.fields, cronStart)
    /\ cronPc' = "done"
    /\ UNCHANGED <<cronExpression, cronStart, cronParsed>>
    /\ UNCHANGED execVars

CronNext == CronParse \/ CronNextTime

CronSpec == CronInit /\ [][CronNext]_vars

(***************************************************************************)
(* Properties of the scheduling engine.                                    *)
(***************************************************************************)
OneShot(h) == heap[h].period = 0 /\ ~heap[h].fixedRate

FixedDelay(h) == heap[h].period > 0 /\ ~heap[h].fixedRate

FixedRate(h) == heap[h].period > 0 /\ heap[h].fixedRate

\* C1: a one-shot task (period 0, not fixed-rate) is dispatched at most once,
\* and once it has been dispatched it is never in the queue again.
OneShotFiresOnce ==
    \A h \in Handles :
        OneShot(h) =>
            /\ hist[h].dispatched <= 1
            /\ hist[h].dispatched >= 1 => ~InQueue(h)

\* C2: a fixed-delay task with period P > 0 is dispatched only while no worker
\* of it is running, and every dispatch after the first happens at least P
\* after the completion of its previous execution.
FixedDelaySpacing ==
    [][\A h \in Handles :
          (FixedDelay(h) /\ running'[h] > running[h]) =>
              /\ running[h] = 0
              /\ hist[h].dispatched >= 1 =>
                    /\ hist[h].completedAt # 0
                    /\ now >= hist[h].completedAt + heap[h].period]_vars

\* C2, witness: a fixed-delay task has been dispatched a second time.
FixedDelayRedispatched ==
    \E h \in Handles : FixedDelay(h) /\ hist[h].dispatched >= 2

\* C3: the trigger instant stored for a fixed-rate task with first trigger T0
\* and period P > 0 is always T0 + n*P for some n >= 0.
FixedRateCadence ==
    \A h \in Handles :
        FixedRate(h) =>
            \E n \in 0 .. (MaxTime + MaxPeriod) :
                heap[h].triggerTime = hist[h].first + n * heap[h].period

\* C4: whenever the control loop is at the top of its loop, the head of the
\* queue has the smallest trigger instant of all tasks in the queue.
HeadIsEarliest ==
    loopPc = "top" =>
        \A i \in 1 .. Len(taskQueue) :
            heap[taskQueue[1]].triggerTime <= heap[taskQueue[i]].triggerTime

\* C5: a remove event for a task whose identity is not in the queue leaves the
\* queue unchanged and the control loop running.
RemoveUnknownIsNoOp ==
    [][\A h \in Handles :
          (LoopRemove(h) /\ TaskIndex(h) = 0) =>
              /\ taskQueue' = taskQueue
              /\ loopPc' # "panicked"]_vars

\* C6: any two tasks created on the executor have different identities, and a
\* remove event for a task's handle removes that task and no other.
UniqueIds ==
    \A a \in Handles : \A b \in Handles : a # b => heap[a].id # heap[b].id

IdentityAndRemoval ==
    [][/\ UniqueIds'
       /\ \A h \in Handles :
             (LoopRemove(h) /\ InQueue(h)) =>
                 taskQueue' = SelectSeq(taskQueue, LAMBDA x : x # h)]_vars

\* C7: a scheduling call with a nil task submits nothing: no task object
\* without a body ever exists, in the queue, on the submit channel or elsewhere,
\* and the step of such a call leaves the task objects, the queue, the submit
\* channel, the timer and the control loop as they were.
NilTaskRejected ==
    /\ [](\A h \in Handles : heap[h].task # Nil)
    /\ [][(\/ Schedule(Nil, 0)
           \/ ScheduleWithFixedDelay(Nil, 0, 0)
           \/ ScheduleAtWithRate(Nil, 0, 0)) =>
              UNCHANGED <<heap, taskQueue, newTaskChannel, timerDeadline, timerC,
                          lastClock, loopPc, running, storing>>]_vars

\* C7, witness: a nil call has panicked while the engine holds a queued task
\* and an armed timer.
NilCallOnBusyEngine ==
    /\ callerPanicked
    /\ taskQueue # <<>>
    /\ timerDeadline # 0

\* C17: a timer fire dispatches each due task of the queue exactly once (and no
\* other task), and the control loop goes on to its next iteration.
FireDispatchesEachDueTask ==
    [][(loopPc \in FireLines /\ loopPc' \notin FireLines) =>
          /\ loopPc' = "top"
          /\ \A h \in Handles : hist[h].fired = (IF hist[h].due THEN 1 ELSE 0)]_vars

\* C18 as stated: no task is in the queue while a worker executes it.
NeverQueuedWhileRunning ==
    \A h \in Handles : ~(InQueue(h) /\ running[h] > 0)

\* C18: a one-shot or fixed-delay task is never in the queue while a worker
\* executes it; a fixed-rate task is left in the queue by the dispatch that
\* starts its worker.
NotQueuedWhileRunningUnlessFixedRate ==
    /\ [](\A h \in Handles : ~FixedRate(h) => ~(InQueue(h) /\ running[h] > 0))
    /\ [][\A h \in Handles :
             (FixedRate(h) /\ running'[h] > running[h]) =>
                 \E i \in 1 .. Len(taskQueue') : taskQueue'[i] = h]_vars

\* C18, witness: a worker runs a task that has left the queue, while another
\* worker runs a fixed-rate task that is still queued.
RunningOutsideAndInsideQueue ==
    /\ \E h \in Handles : ~FixedRate(h) /\ running[h] > 0 /\ ~InQueue(h)
    /\ \E g \in Handles : FixedRate(g) /\ running[g] > 0 /\ InQueue(g)

\* C19: while a worker runs a task body, the control loop at its select can
\* accept each pending submit and a remove event for each queued task, and a
\* timer fire it serves ends at the top of the loop with every other task that
\* was due at the fire dispatched.
LoopServesBesideWorkers ==
    [][\A g \in Handles :
          running[g] > 0 =>
              /\ loopPc = "select" =>
                    \A h \in Handles :
                        /\ newTaskChannel[h] > 0 => ENABLED LoopSubmit(h)
                        /\ InQueue(h) => ENABLED LoopRemove(h)
              /\ (loopPc \in FireLines /\ loopPc' \notin FireLines) =>
                    /\ loopPc' = "top"
                    /\ \A h \in Handles \ {g} : hist[h].due => hist[h].fired >= 1]_vars

\* C20: a task that is in the queue with its trigger instant reached is
\* eventually dispatched, unless it is removed or the loop has ended. (A run
\* that arms the timer for an instant after the modelled span of time is not
\* judged.)
DueTaskEventuallyDispatched ==
    \A h \in 1 .. MaxTasks :
        (h \in Handles /\ InQueue(h) /\ heap[h].triggerTime <= now)
            ~> \/ ~InQueue(h)
               \/ ~Alive
               \/ h \in Handles /\ hist[h].dispatched >= 1
               \/ timerDeadline > MaxTime


(***************************************************************************)
(* Properties of the cron engine.                                          *)
(***************************************************************************)
\* C8: for "0 0 12 * * MON" and a start on a Tuesday at 12:00:00, NextTime
\* returns 12:00:00 of the Monday six days later.
MondayNoonAfterTuesday ==
    (/\ cronPc = "done"
     /\ cronExpression = MondayNoonExpression
     /\ Weekday(cronStart) = 2
     /\ cronStart.sec = 12 * 3600
     /\ cronStart.nsec = 0) =>
        cronResult = [day |-> cronStart.day + 6, sec |-> 12 * 3600, nsec |-> 0]

\* C9: an instant NextTime returns (not the zero value) has, in each of the six
\* fields, a value whose bit is set in the field's bitmask.
ResultMatchesAllFields ==
    (cronPc = "done" /\ ~IsZeroTime(cronResult)) =>
        \A i \in 1 .. Len(cronParsed.fields) :
            getTimeValue(cronResult, cronParsed.fields[i].Typ.Field)
                \in cronParsed.fields[i].Bits

\* C10: NextTime(t) is the zero value or an instant strictly after t.
ResultStrictlyAfter ==
    cronPc = "done" => (IsZeroTime(cronResult) \/ After(cronResult, cronStart))

\* C10, witness: NextTime has returned an instant for a start instant on a
\* whole second.
ReturnedAnInstant ==
    /\ cronPc = "done"
    /\ ~IsZeroTime(cronResult)
    /\ cronStart.nsec = 0

\* C11: for a parsed expression that no instant can satisfy (a field without a
\* set bit, or days of month that none of its months has, as day 31 of
\* February), NextTime returns the zero value.
UnsatisfiableHasNoNext ==
    LET fields == cronParsed.fields
        DaysIn(m) == IF m = 2 THEN 29 ELSE IF m \in {4, 6, 9, 11} THEN 30 ELSE 31
    IN (/\ cronPc = "done"
        /\ \/ \E i \in 1 .. Len(fields) : fields[i].Bits = {}
           \/ \A m \in fields[5].Bits : \A d \in fields[4].Bits : d > DaysIn(m))
           => IsZeroTime(cronResult)

\* C12: the bitmask of a parsed field is the union of the bitmasks of its
\* comma-separated terms, each parsed on its own.
FieldIsUnionOfTerms ==
    cronParsed.status = "ok" =>
        \A i \in 1 .. Len(cronFieldTypes) :
            LET token == Fields(cronExpression)[i]
                value == IF cronFieldTypes[i].Field = cronFieldMonth
                         THEN replaceOrdinals(token, months)
                         ELSE IF cronFieldTypes[i].Field = cronFieldDayOfWeek
                              THEN replaceOrdinals(token, days)
                              ELSE token
                terms == Split(value, ",")
            IN cronParsed.fields[i].Bits =
                  UNION { parseTerm({}, terms[k], cronFieldTypes[i]).bits :
                             k \in 1 .. Len(terms) }

\* C13: "7" and "SUN" in the day-of-week field parse, to the bitmask of "0".
SundayAliasOfZero ==
    (cronPc # "start" /\ cronExpression \in SundayExpressions) =>
        /\ cronParsed.status = "ok"
        /\ cronParsed.fields[6].Bits = parseField(<<"0">>, dayOfWeek).Bits

\* C14: an expression with a step that is zero, negative or not a number is
\* rejected with an error returned to the caller.
BadStepReturnsError ==
    LET tokens == Fields(cronExpression)
        BadStep(term) ==
            /\ Index(term, "/") # -1
            /\ \/ Atoi(SliceFrom(term, Index(term, "/") + 1)).err
               \/ LessEq(Atoi(SliceFrom(term, Index(term, "/") + 1)).n, 0)
        HasBadStep ==
            \E i \in 1 .. Len(tokens) :
                \E k \in 1 .. Len(Split(tokens[i], ",")) : BadStep(Split(tokens[i], ",")[k])
    IN (cronPc # "start" /\ HasBadStep) => cronPc = "rejected"

\* C15: a field token a/step (a a number within the field's range, no hyphen,
\* step >= 1) parses, to exactly the bits a, a + step, a + 2*step, ... up to the
\* field's maximum. A step beyond the field's maximum leaves a alone.
SteppedStartBits ==
    (cronPc # "start" /\ Len(Fields(cronExpression)) = Len(cronFieldTypes)) =>
        \A i \in 1 .. Len(cronFieldTypes) :
            LET token == Fields(cronExpression)[i]
                slashPos == Index(token, "/")
                a == Atoi(Slice(token, 0, slashPos))
                step == Atoi(SliceFrom(token, slashPos + 1))
                width == IF Fits(step.n) THEN Value(step.n) ELSE Limb
            IN (/\ slashPos # -1
                /\ Index(token, ",") = -1
                /\ Index(token, "-") = -1
                /\ ~a.err
                /\ GreaterEq(a.n, cronFieldTypes[i].MinValue)
                /\ LessEq(a.n, cronFieldTypes[i].MaxValue)
                /\ ~step.err
                /\ GreaterEq(step.n, 1)) =>
                   /\ parseField(token, cronFieldTypes[i]).status = "ok"
                   /\ parseField(token, cronFieldTypes[i]).Bits =
                          { v \in Value(a.n) .. cronFieldTypes[i].MaxValue :
                               (v - Value(a.n)) % width = 0 }

\* C16: every field of an accepted expression has at least one set bit, and all
\* its set bits lie within the field's minimum and maximum.
AcceptedFieldsSetInRange ==
    cronParsed.status = "ok" =>
        \A i \in 1 .. Len(cronParsed.fields) :
            /\ cronParsed.fields[i].Bits # {}
            /\ cronParsed.fields[i].Bits \subseteq
                  cronParsed.fields[i].Typ.MinValue .. cronParsed.fields[i].Typ.MaxValue

TypeOK ==
    /\ now \in 1 .. MaxTime
    /\ Len(heap) <= MaxTasks
    /\ \A i \in 1 .. Len(taskQueue) : taskQueue[i] \in Handles
    /\ loopPc \in {"start", "top", "l94now", "l94", "select", "l134", "panicked"} \cup FireLines
====
